---- MODULE Spec2Model ----
(***************************************************************************)
(* A model of backend/src/pty.rs: one pseudo-terminal backed shell         *)
(* session (Pty).  The module holds several state machines over one set of *)
(* variables:                                                              *)
(*   SpecOpen    Pty::open, step by step, from before construction         *)
(*   SpecFwd     send_bytes, the bounded channel and the forwarding task   *)
(*   SpecAbort   the same from a full queue on                             *)
(*   SpecReady   wait_for_shell_ready and shell_has_no_children            *)
(*   SpecResize  resize under the master lock                              *)
(*   SpecRelease kill_child next to the channel, the task and the drop     *)
(*   SpecLocks   the operations that lock or suspend, side by side         *)
(* All but the first start in a state a successful open leaves behind.     *)
(* Time is counted in units of 100 ms.                                     *)
(***************************************************************************)
EXTENDS Integers, Sequences, FiniteSets, TLC

----------------------------------------------------------------------------
(* Bounds of the model *)

NumProducers == 2
MaxChunks == 35
MaxSnapshotDelay == 1
MaxChildren == 1
NumResizers == 2
MaxOpens == 2
NumKillers == 1
MaxKills == 1
MaxLockTicks == 3
MaxReleaseChunks == 3

(* Program constants *)

Capacity == 32
REQUIRED_READY_CHECKS == 3
TimeoutBudget == 50
PollInterval == 3

Producers == 1..NumProducers
Resizers == 1..NumResizers
Killers == 1..NumKillers

\* Terminal sizes callers ask for
RowChoices == {1, 24}
ColChoices == {1, 80}

\* Environments callers pass to open: none, one that does not touch the
\* injected variables, and ones that set one or both of them.
EnvChoices ==
  { <<>>,
    [k \in {"FOO"} |-> "bar"],
    [k \in {"TERM"} |-> "dumb"],
    [k \in {"TERM"} |-> "xterm-256color"],
    [k \in {"TERM", "ATUIN_DESKTOP_PTY", "FOO"} |->
       IF k = "TERM" THEN "vt100" ELSE IF k = "FOO" THEN "bar" ELSE "false"] }

\* Shell paths callers pass to open: None, Some(""), Some("/bin/zsh")
ShellChoices == {"none", "", "/bin/zsh"}

\* Working directories callers pass to open: None, Some("/tmp")
CwdChoices == {"none", "/tmp"}

OpenArgChoices ==
  [rows : RowChoices, cols : ColChoices, cwd : CwdChoices, env : EnvChoices,
   shell : ShellChoices]

----------------------------------------------------------------------------
VARIABLES
  \* ---- Pty::open ----
  openPc,        \* position of the current open call
  openArgs,      \* its arguments
  openResult,    \* "none" | "Session" | "ErrOpenPty" | "ErrSpawn" |
                 \* "PanicTakeWriter" | "PanicCloneReader"
  opensLeft,     \* open calls still to be made
  cmd,           \* the CommandBuilder: [prog, args, env, cwd]
  pairs,         \* device pairs allocated and not yet released
  slaveHeld,     \* the local reference pair.slave is alive
  children,      \* shell processes spawned and still running
  orphans,       \* children whose handle was dropped without a Session
  sessions,      \* Sessions returned to callers
  tasks,         \* forwarding tasks started
  \* ---- the session ----
  geometry,      \* PtySize of the device
  childStatus,   \* "running" | "exited"
  killRequests,  \* termination requests issued to the child
  \* ---- channel and forwarding task ----
  queue,         \* chunks in the mpsc channel, head first
  permits,       \* free slots of the channel's semaphore
  waitq,         \* producers suspended on a full channel, first first
  sendPc,        \* per producer: "idle" | "waiting" | "granted"
  sendChunk,     \* per producer: the chunk of its suspended call, else 0
  lastReturn,    \* the send_bytes call that returned last: who, chunk, result
  nextChunk,     \* next chunk to be submitted
  txDropped,     \* the Sender (the Session) has been dropped
  rxClosed,      \* the Receiver has been dropped
  taskPc,        \* "recv" | "write" | "flush" | "done" | "aborted"
  cur,           \* the chunk the task holds, 0 if none
  device,        \* bytes written to the device writer, in order
  flushed,       \* how many of them have been flushed
  writerDropped, \* the writer has been dropped (end-of-input)
  enqueuedLog,   \* chunks in the order they entered the channel
  recvCount,     \* chunks the task has received
  droppedWith,   \* chunks not yet written when the Session was dropped
                 \* (-1 before the drop, counted up to 2)
  \* ---- resize ----
  masterLock,    \* 0, or the caller holding the master mutex
  rsPc,          \* per caller: "idle" | "called" | "locked"
  rsArg,         \* per caller: <<rows, cols>> of its call in progress
  rsReturn,      \* the resize call that returned last: who, size, result
  lastCalled,    \* the caller that called resize last, 0 if none
  lastLocked,    \* who took the master lock last, and with what size
  \* ---- kill_child and the child mutex ----
  childLock,     \* who holds the child mutex: [op, who], op "none" if free
  kPc,           \* per caller: "idle" | "called" | "locked"
  kReturn,       \* the kill_child call that returned last: who, result
  killsLeft,     \* kill_child calls still to be made
  \* ---- wait_for_shell_ready ----
  wPc,           \* position in wait_for_shell_ready
  wResult,       \* its result
  elapsed,       \* start.elapsed(), in units of 100 ms
  consecutive_ready_checks,
  recent,        \* the last (up to Window) snapshots: children seen
  snapshots,     \* snapshots taken by this call (counted up to 4)
  sleeps,        \* sleeps finished by this call (counted up to 4)
  statusChecks,  \* try_wait calls made by this call (counted up to 4)
  exitedAtFirstCheck, \* the shell had exited when try_wait was first called
  sawZeroChildren     \* some snapshot of this call showed no children

openVars == <<openPc, openArgs, openResult, opensLeft, cmd, pairs, slaveHeld,
              children, orphans, sessions, tasks>>
sessVars == <<geometry, childStatus, killRequests>>
fwdVars == <<queue, permits, waitq, sendPc, sendChunk, lastReturn, nextChunk,
             txDropped, rxClosed, taskPc, cur, device, flushed, writerDropped,
             enqueuedLog, recvCount, droppedWith>>
rsVars == <<masterLock, rsPc, rsArg, rsReturn, lastCalled,
           lastLocked>>
readyVars == <<wPc, wResult, elapsed, consecutive_ready_checks, recent,
               snapshots, sleeps, statusChecks, exitedAtFirstCheck,
               sawZeroChildren>>
killVars == <<childLock, kPc, kReturn, killsLeft>>
vars == <<openVars, sessVars, fwdVars, rsVars, readyVars, killVars>>

----------------------------------------------------------------------------
(* Helpers *)

RECURSIVE Flatten(_)
Flatten(ss) == IF ss = <<>> THEN <<>> ELSE Head(ss) \o Flatten(Tail(ss))

Min2(n) == IF n < 2 THEN n ELSE 2

Min4(n) == IF n < 4 THEN n ELSE 4

IsPrefix(s, t) == Len(s) <= Len(t) /\ SubSeq(t, 1, Len(s)) = s

\* The bytes of chunk c: chunks are 1 or 2 bytes long and no two share a byte.
ChunkBytes(c) == [j \in 1..(1 + (c % 2)) |-> <<c, j>>]

BytesOf(chunks) == Flatten([i \in 1..Len(chunks) |-> ChunkBytes(chunks[i])])

----------------------------------------------------------------------------
(* Pty::open *)

\* PtySize { rows, cols, pixel_width: 0, pixel_height: 0 }
PtySizeOf(rows, cols) ==
  [rows |-> rows, cols |-> cols, pixel_width |-> 0, pixel_height |-> 0]

\* The variables open injects before the caller's
InjectedEnv ==
  [k \in {"ATUIN_DESKTOP_PTY", "TERM"} |->
     IF k = "TERM" THEN "xterm-256color" ELSE "true"]

\* Faulty variant: an entry already set is not replaced.
ApplyEnvKeepsFirst(base, env) ==
  [k \in (DOMAIN base) \cup (DOMAIN env) |->
     IF k \in DOMAIN base THEN base[k] ELSE env[k]]

\* cmd.env(key, value) for every entry of env, on top of base
ApplyEnv(base, env) ==
  [k \in (DOMAIN base) \cup (DOMAIN env) |->
     IF k \in DOMAIN env THEN env[k] ELSE base[k]]

\* The CommandBuilder open hands to spawn_command
BuildCommand(args) ==
  [prog |-> IF args.shell \notin {"none", ""} THEN args.shell ELSE "default",
   args |-> IF args.shell \notin {"none", ""} THEN <<"-i">> ELSE <<>>,
   env |-> ApplyEnv(InjectedEnv, args.env),
   cwd |-> args.cwd]

NoCommand == [prog |-> "none", args |-> <<>>, env |-> <<>>, cwd |-> "none"]

\* The values the session's variables hold while there is no session
NoSession ==
  /\ queue = <<>>
  /\ permits = 0
  /\ waitq = <<>>
  /\ sendPc = [p \in Producers |-> "idle"]
  /\ sendChunk = [p \in Producers |-> 0]
  /\ lastReturn = [who |-> 0, chunk |-> 0, result |-> "none"]
  /\ nextChunk = 1
  /\ txDropped = FALSE
  /\ rxClosed = FALSE
  /\ taskPc = "unstarted"
  /\ cur = 0
  /\ device = <<>>
  /\ flushed = 0
  /\ writerDropped = FALSE
  /\ enqueuedLog = <<>>
  /\ recvCount = 0
  /\ droppedWith = -1
  /\ masterLock = 0
  /\ rsPc = [r \in Resizers |-> "idle"]
  /\ rsArg = [r \in Resizers |-> <<>>]
  /\ rsReturn = [who |-> 0, size |-> <<>>, result |-> "none"]
  /\ lastCalled = 0
  /\ lastLocked = [who |-> 0, size |-> <<>>]
  /\ childLock = [op |-> "none", who |-> 0]
  /\ kPc = [k \in Killers |-> "idle"]
  /\ kReturn = [who |-> 0, result |-> "none"]
  /\ killsLeft = MaxKills
  /\ wPc = "idle"
  /\ wResult = "none"
  /\ elapsed = 0
  /\ consecutive_ready_checks = 0
  /\ recent = <<>>
  /\ snapshots = 0
  /\ sleeps = 0
  /\ statusChecks = 0
  /\ exitedAtFirstCheck = FALSE
  /\ sawZeroChildren = FALSE

\* A caller calls open(rows, cols, cwd, env, metadata, shell).
OpenCall ==
  /\ openPc \in {"idle", "returned"}
  /\ opensLeft > 0
  /\ opensLeft' = opensLeft - 1
  /\ \E a \in OpenArgChoices : openArgs' = a
  /\ openPc' = "openpty"
  /\ openResult' = "none"
  /\ cmd' = NoCommand
  /\ UNCHANGED <<pairs, slaveHeld, children, orphans, sessions, tasks>>
  /\ UNCHANGED <<sessVars, fwdVars, rsVars, readyVars, killVars>>

\* Faulty variant: the slave end outlives the call.
OpenLeaveKeepsSlave(r) ==
  /\ openPc' = "returned"
  /\ openResult' = r
  /\ slaveHeld' = slaveHeld

\* open leaves with r; the locals it still holds go with it.
OpenLeave(r) ==
  /\ openPc' = "returned"
  /\ openResult' = r
  /\ slaveHeld' = FALSE

\* sys.openpty(PtySize { rows, cols, 0, 0 }) is Ok(pair)
OpenPty ==
  /\ openPc = "openpty"
  /\ pairs' = pairs + 1
  /\ slaveHeld' = TRUE
  /\ geometry' = PtySizeOf(openArgs.rows, openArgs.cols)
  /\ openPc' = "build"
  /\ UNCHANGED <<openArgs, openResult, opensLeft, cmd, children, orphans,
                 sessions, tasks, childStatus, killRequests>>
  /\ UNCHANGED <<fwdVars, rsVars, readyVars, killVars>>

\* sys.openpty(..) is Err(e): Err("Failed to open pty")
OpenPtyFail ==
  /\ openPc = "openpty"
  /\ OpenLeave("ErrOpenPty")
  /\ UNCHANGED <<openArgs, opensLeft, cmd, pairs, children, orphans,
                 sessions, tasks>>
  /\ UNCHANGED <<sessVars, fwdVars, rsVars, readyVars, killVars>>

\* The command is built: program, -i, the injected variables, cwd, env.
OpenBuildCommand ==
  /\ openPc = "build"
  /\ cmd' = BuildCommand(openArgs)
  /\ openPc' = "spawn"
  /\ UNCHANGED <<openArgs, openResult, opensLeft, pairs, slaveHeld, children,
                 orphans, sessions, tasks>>
  /\ UNCHANGED <<sessVars, fwdVars, rsVars, readyVars, killVars>>

\* pair.slave.spawn_command(cmd) is Ok(child)
OpenSpawn ==
  /\ openPc = "spawn"
  /\ children' = children + 1
  /\ childStatus' = "running"
  /\ killRequests' = 0
  /\ openPc' = "drop_slave"
  /\ UNCHANGED <<openArgs, openResult, opensLeft, cmd, pairs, slaveHeld,
                 orphans, sessions, tasks, geometry>>
  /\ UNCHANGED <<fwdVars, rsVars, readyVars, killVars>>

\* spawn_command is Err(e): Err("Failed to spawn shell process"); the pair
\* is dropped on the way out.
OpenSpawnFail ==
  /\ openPc = "spawn"
  /\ OpenLeave("ErrSpawn")
  /\ pairs' = pairs - 1
  /\ UNCHANGED <<openArgs, opensLeft, cmd, children, orphans, sessions,
                 tasks>>
  /\ UNCHANGED <<sessVars, fwdVars, rsVars, readyVars, killVars>>

\* drop(pair.slave)
OpenDropSlave ==
  /\ openPc = "drop_slave"
  /\ slaveHeld' = FALSE
  /\ openPc' = "take_writer"
  /\ UNCHANGED <<openArgs, openResult, opensLeft, cmd, pairs, children,
                 orphans, sessions, tasks>>
  /\ UNCHANGED <<sessVars, fwdVars, rsVars, readyVars, killVars>>

\* channel::<Bytes>(32); pair.master.take_writer() is Ok(writer)
OpenTakeWriter ==
  /\ openPc = "take_writer"
  /\ openPc' = "clone_reader"
  /\ UNCHANGED <<openArgs, openResult, opensLeft, cmd, pairs, slaveHeld,
                 children, orphans, sessions, tasks>>
  /\ UNCHANGED <<sessVars, fwdVars, rsVars, readyVars, killVars>>

\* unwrap() or expect() on an Err panics: open unwinds, dropping the master
\* and the child handle; the shell it spawned is left without a Session.
OpenPanic(what) ==
  /\ OpenLeave(what)
  /\ pairs' = pairs - 1
  /\ orphans' = orphans + 1
  /\ UNCHANGED <<openArgs, opensLeft, cmd, children, sessions, tasks>>
  /\ UNCHANGED <<sessVars, fwdVars, rsVars, readyVars, killVars>>

\* pair.master.take_writer() is Err(e)
OpenTakeWriterFail ==
  /\ openPc = "take_writer"
  /\ OpenPanic("PanicTakeWriter")

\* pair.master.try_clone_reader() is Ok(reader)
OpenCloneReader ==
  /\ openPc = "clone_reader"
  /\ openPc' = "spawn_task"
  /\ UNCHANGED <<openArgs, openResult, opensLeft, cmd, pairs, slaveHeld,
                 children, orphans, sessions, tasks>>
  /\ UNCHANGED <<sessVars, fwdVars, rsVars, readyVars, killVars>>

\* pair.master.try_clone_reader() is Err(e)
OpenCloneReaderFail ==
  /\ openPc = "clone_reader"
  /\ OpenPanic("PanicCloneReader")

\* tokio::spawn(async move { .. }): the forwarding task starts on an empty
\* channel of 32 slots.
OpenSpawnTask ==
  /\ openPc = "spawn_task"
  /\ tasks' = tasks + 1
  /\ taskPc' = "recv"
  /\ permits' = Capacity
  /\ openPc' = "return"
  /\ UNCHANGED <<openArgs, openResult, opensLeft, cmd, pairs, slaveHeld,
                 children, orphans, sessions>>
  /\ UNCHANGED <<queue, waitq, sendPc, sendChunk, lastReturn, nextChunk,
                 txDropped, rxClosed, cur, device, flushed, writerDropped,
                 enqueuedLog, recvCount, droppedWith>>
  /\ UNCHANGED <<sessVars, rsVars, readyVars, killVars>>

\* Ok(Pty { metadata, tx, master, reader, child })
OpenReturn ==
  /\ openPc = "return"
  /\ OpenLeave("Session")
  /\ sessions' = sessions + 1
  /\ UNCHANGED <<openArgs, opensLeft, cmd, pairs, children, orphans, tasks>>
  /\ UNCHANGED <<sessVars, fwdVars, rsVars, readyVars, killVars>>

NextOpen ==
  \/ OpenCall
  \/ OpenPty
  \/ OpenPtyFail
  \/ OpenBuildCommand
  \/ OpenSpawn
  \/ OpenSpawnFail
  \/ OpenDropSlave
  \/ OpenTakeWriter
  \/ OpenTakeWriterFail
  \/ OpenCloneReader
  \/ OpenCloneReaderFail
  \/ OpenSpawnTask
  \/ OpenReturn

InitOpen ==
  /\ openPc = "idle"
  /\ openArgs = [rows |-> 1, cols |-> 1, cwd |-> "none", env |-> <<>>,
                 shell |-> "none"]
  /\ openResult = "none"
  /\ opensLeft = MaxOpens
  /\ cmd = NoCommand
  /\ pairs = 0
  /\ slaveHeld = FALSE
  /\ children = 0
  /\ orphans = 0
  /\ sessions = 0
  /\ tasks = 0
  /\ geometry = PtySizeOf(0, 0)
  /\ childStatus = "none"
  /\ killRequests = 0
  /\ NoSession

SpecOpen == InitOpen /\ [][NextOpen]_vars

\* C7 (as claimed): open ends in a Session or in an error value, never in a
\* panic of its caller, and a forwarding task runs only for a Session.
C7_OpenFailsWithErrorValue ==
  /\ openPc = "returned" =>
       openResult \in {"Session", "ErrOpenPty", "ErrSpawn", "ErrWriter",
                       "ErrReader"}
  /\ tasks <= sessions + (IF openPc = "return" THEN 1 ELSE 0)

\* The command of the current open call has been built.
CommandBuilt == openPc \in {"spawn", "drop_slave", "take_writer",
                            "clone_reader", "spawn_task", "return"}

\* C12: the environment handed to spawn_command holds the two injected
\* variables and the caller's entries and nothing else; every key the caller
\* supplies carries the caller's value, the injected keys included, and an
\* injected key the caller does not supply carries the injected default.
C12_CallerEnvOverridesInjected ==
  (CommandBuilt \/ (openPc = "returned" /\ cmd # NoCommand)) =>
    /\ DOMAIN cmd.env = DOMAIN InjectedEnv \cup DOMAIN openArgs.env
    /\ \A k \in DOMAIN openArgs.env : cmd.env[k] = openArgs.env[k]
    /\ \A k \in DOMAIN InjectedEnv \ DOMAIN openArgs.env :
         cmd.env[k] = InjectedEnv[k]

\* C18: the steps of open come in one order.  The slave end is held from
\* openpty to the step right after a successful spawn, which releases it, so
\* it is released before the writer and the reader are derived; open never
\* ends, in whatever way, holding it.  The forwarding task is started before
\* open returns: when a Session is returned its task is already running, and
\* there are as many tasks as Sessions between calls.
C18_ConstructionOrder ==
  /\ [](slaveHeld <=> openPc \in {"build", "spawn", "drop_slave"})
  /\ [](openPc \in {"idle", "returned"} => tasks = sessions)
  /\ [](openPc = "return" => tasks = sessions + 1)
  /\ [][/\ (openPc = "spawn" /\ children' # children) =>
            openPc' = "drop_slave"
        /\ openPc = "drop_slave" =>
            (~slaveHeld' /\ openPc' = "take_writer" /\ tasks' = tasks)
        /\ sessions' # sessions =>
            /\ sessions' = sessions + 1
            /\ openPc = "return"
            /\ openResult' = "Session"
            /\ tasks' = tasks
        /\ tasks' # tasks =>
            (tasks' = tasks + 1 /\ openPc = "spawn_task" /\ ~slaveHeld)]_vars

\* A second open failed at spawn_command after a first one returned a
\* Session: one Session, one task, no slave end held.
C18_Witness ==
  /\ openPc = "returned"
  /\ openResult = "ErrSpawn"
  /\ sessions = 1
  /\ tasks = 1
  /\ ~slaveHeld

\* C15 (as claimed): between open calls every allocated device pair and
\* every spawned shell belongs to a Session, one of each per Session.
C15_OneSessionPerPairAndChild ==
  openPc \in {"idle", "returned"} =>
    /\ pairs = sessions
    /\ children = sessions
    /\ orphans = 0

\* The second Session's shell was spawned by a caller that overrode both
\* injected variables.
C12_Witness ==
  /\ openPc = "returned"
  /\ openResult = "Session"
  /\ sessions = 2
  /\ "TERM" \in DOMAIN openArgs.env
  /\ cmd.env["TERM"] = "vt100"
  /\ cmd.env["ATUIN_DESKTOP_PTY"] = "false"
  /\ cmd.env["FOO"] = "bar"

----------------------------------------------------------------------------
(* The state a successful open(rows, cols, ..) leaves behind *)

\* sent chunks have been accepted by send_bytes since, and the forwarding task
\* has not been scheduled yet.
SessionAfter(rows, cols, sent) ==
  /\ openPc = "returned"
  /\ openArgs = [rows |-> rows, cols |-> cols, cwd |-> "none", env |-> <<>>,
                 shell |-> "none"]
  /\ openResult = "Session"
  /\ opensLeft = 0
  /\ cmd = BuildCommand([rows |-> rows, cols |-> cols, cwd |-> "none",
                         env |-> <<>>, shell |-> "none"])
  /\ pairs = 1
  /\ slaveHeld = FALSE
  /\ children = 1
  /\ orphans = 0
  /\ sessions = 1
  /\ tasks = 1
  /\ geometry = PtySizeOf(rows, cols)
  /\ childStatus = "running"
  /\ killRequests = 0
  /\ queue = [i \in 1..sent |-> i]
  /\ permits = Capacity - sent
  /\ waitq = <<>>
  /\ sendPc = [p \in Producers |-> "idle"]
  /\ sendChunk = [p \in Producers |-> 0]
  /\ lastReturn = IF sent = 0
                    THEN [who |-> 0, chunk |-> 0, result |-> "none"]
                    ELSE [who |-> 1, chunk |-> sent, result |-> "Ok"]
  /\ nextChunk = sent + 1
  /\ txDropped = FALSE
  /\ rxClosed = FALSE
  /\ taskPc = "recv"
  /\ cur = 0
  /\ device = <<>>
  /\ flushed = 0
  /\ writerDropped = FALSE
  /\ enqueuedLog = [i \in 1..sent |-> i]
  /\ recvCount = 0
  /\ droppedWith = -1
  /\ masterLock = 0
  /\ rsPc = [r \in Resizers |-> "idle"]
  /\ rsArg = [r \in Resizers |-> <<>>]
  /\ rsReturn = [who |-> 0, size |-> <<>>, result |-> "none"]
  /\ lastCalled = 0
  /\ lastLocked = [who |-> 0, size |-> <<>>]
  /\ childLock = [op |-> "none", who |-> 0]
  /\ kPc = [k \in Killers |-> "idle"]
  /\ kReturn = [who |-> 0, result |-> "none"]
  /\ killsLeft = MaxKills
  /\ wPc = "idle"
  /\ wResult = "none"
  /\ elapsed = 0
  /\ consecutive_ready_checks = 0
  /\ recent = <<>>
  /\ snapshots = 0
  /\ sleeps = 0
  /\ statusChecks = 0
  /\ exitedAtFirstCheck = FALSE
  /\ sawZeroChildren = FALSE

SessionInit(rows, cols) == SessionAfter(rows, cols, 0)

----------------------------------------------------------------------------
(* The bounded channel: tokio::sync::mpsc::channel::<Bytes>(32)            *)

\* Faulty variant: the channel never counts as full.
HasSpaceUnbounded == permits > 0 \/ permits = 0

\* A slot is free: Sender::send completes without suspending.
HasSpace == permits > 0

\* Faulty variant: the chunk goes to the head.
EnqueueAtHead(q, c) == <<c>> \o q

\* Sender::send puts a chunk at the tail.
Enqueue(q, c) == Append(q, c)

\* Faulty variant: the newest chunk is taken.
FrontNewest(q) == q[Len(q)]

\* Receiver::recv takes the chunk at the head.
Front(q) == Head(q)

Dequeue(q) == Tail(q)

\* Faulty variant: None as soon as every Sender is gone.
ChannelDrainedEarly == txDropped

\* recv() yields None: every Sender is gone and nothing is left to receive.
ChannelDrained == txDropped /\ queue = <<>>

\* The slot a received chunk frees goes to the longest-waiting producer, if
\* any (the semaphore hands permits to its waiters in FIFO order).
ReleaseSlot ==
  IF waitq # <<>>
    THEN /\ sendPc' = [sendPc EXCEPT ![Head(waitq)] = "granted"]
         /\ waitq' = Tail(waitq)
         /\ permits' = permits
    ELSE /\ permits' = permits + 1
         /\ UNCHANGED <<sendPc, waitq>>

\* What the caller of send_bytes gets back
Returned(p, c, r) == [who |-> p, chunk |-> c, result |-> r]

\* send_bytes(bytes), up to its first suspension point.
SendBytes(p) ==
  /\ sendPc[p] = "idle"
  /\ ~txDropped
  /\ nextChunk <= MaxChunks
  /\ nextChunk' = nextChunk + 1
  /\ IF rxClosed
       THEN /\ lastReturn' = Returned(p, nextChunk, "Err")
            /\ UNCHANGED <<queue, permits, waitq, sendPc, sendChunk,
                           enqueuedLog>>
       ELSE IF HasSpace
         THEN /\ queue' = Enqueue(queue, nextChunk)
              /\ enqueuedLog' = Append(enqueuedLog, nextChunk)
              /\ permits' = permits - 1
              /\ lastReturn' = Returned(p, nextChunk, "Ok")
              /\ UNCHANGED <<waitq, sendPc, sendChunk>>
         ELSE /\ sendPc' = [sendPc EXCEPT ![p] = "waiting"]
              /\ sendChunk' = [sendChunk EXCEPT ![p] = nextChunk]
              /\ waitq' = Append(waitq, p)
              /\ UNCHANGED <<queue, permits, enqueuedLog, lastReturn>>
  /\ UNCHANGED <<txDropped, rxClosed, taskPc, cur, device, flushed,
                 writerDropped, recvCount, droppedWith>>
  /\ UNCHANGED <<openVars, sessVars, rsVars, readyVars, killVars>>

\* Faulty variant: closing the channel wakes nobody.
WokenOnGrantOnly(p) == sendPc[p] = "granted"

\* The suspended send of p has been woken: it was handed a slot, or the
\* channel was closed under it.
Woken(p) == rxClosed \/ sendPc[p] = "granted"

\* A suspended send_bytes is resumed: it was handed a slot, or the channel
\* was closed under it.
SendResume(p) ==
  /\ sendPc[p] \in {"waiting", "granted"}
  /\ Woken(p)
  /\ sendPc' = [sendPc EXCEPT ![p] = "idle"]
  /\ sendChunk' = [sendChunk EXCEPT ![p] = 0]
  /\ IF rxClosed
       THEN /\ lastReturn' = Returned(p, sendChunk[p], "Err")
            /\ waitq' = SelectSeq(waitq, LAMBDA x : x # p)
            /\ UNCHANGED <<queue, enqueuedLog>>
       ELSE /\ queue' = Enqueue(queue, sendChunk[p])
            /\ enqueuedLog' = Append(enqueuedLog, sendChunk[p])
            /\ lastReturn' = Returned(p, sendChunk[p], "Ok")
            /\ UNCHANGED waitq
  /\ UNCHANGED <<permits, nextChunk, txDropped, rxClosed, taskPc,
                 cur, device, flushed, writerDropped, recvCount, droppedWith>>
  /\ UNCHANGED <<openVars, sessVars, rsVars, readyVars, killVars>>

\* No public operation is running: each of them borrows the Session.
NoCallInFlight ==
  /\ \A p \in Producers : sendPc[p] = "idle"
  /\ \A r \in Resizers : rsPc[r] = "idle"
  /\ \A k \in Killers : kPc[k] = "idle"
  /\ wPc \in {"idle", "returned"}

\* The last reference to the Session goes away: the only Sender is dropped.
DropSession ==
  /\ ~txDropped
  /\ NoCallInFlight
  /\ txDropped' = TRUE
  /\ UNCHANGED <<queue, permits, waitq, sendPc, sendChunk, lastReturn,
                 nextChunk, rxClosed, taskPc, cur, device, flushed,
                 writerDropped, enqueuedLog, recvCount>>
  /\ droppedWith' = Min2(Len(queue) + (IF cur = 0 THEN 0 ELSE 1))
  /\ UNCHANGED <<openVars, sessVars, rsVars, readyVars, killVars>>

----------------------------------------------------------------------------
(* The forwarding task *)

\* master_rx.recv().await yields Some(bytes)
TaskRecv ==
  /\ taskPc = "recv"
  /\ queue # <<>>
  /\ cur' = Front(queue)
  /\ queue' = Dequeue(queue)
  /\ recvCount' = recvCount + 1
  /\ ReleaseSlot
  /\ taskPc' = "write"
  /\ UNCHANGED <<sendChunk, lastReturn, nextChunk, txDropped, rxClosed,
                 device, flushed, writerDropped, enqueuedLog, droppedWith>>
  /\ UNCHANGED <<openVars, sessVars, rsVars, readyVars, killVars>>

\* master_rx.recv().await yields None: the loop ends, drop(writer), the task
\* ends (and with it the Receiver).
TaskExit ==
  /\ taskPc = "recv"
  /\ ChannelDrained
  /\ taskPc' = "done"
  /\ writerDropped' = TRUE
  /\ rxClosed' = TRUE
  /\ UNCHANGED <<queue, permits, waitq, sendPc, sendChunk, lastReturn,
                 nextChunk, txDropped, cur, device, flushed, enqueuedLog,
                 recvCount, droppedWith>>
  /\ UNCHANGED <<openVars, sessVars, rsVars, readyVars, killVars>>

\* writer.write_all(&bytes) succeeds
TaskWrite ==
  /\ taskPc = "write"
  /\ device' = device \o ChunkBytes(cur)
  /\ taskPc' = "flush"
  /\ UNCHANGED <<queue, permits, waitq, sendPc, sendChunk, lastReturn,
                 nextChunk, txDropped, rxClosed, cur, flushed, writerDropped,
                 enqueuedLog, recvCount, droppedWith>>
  /\ UNCHANGED <<openVars, sessVars, rsVars, readyVars, killVars>>

\* writer.flush() succeeds
TaskFlush ==
  /\ taskPc = "flush"
  /\ flushed' = Len(device)
  /\ cur' = 0
  /\ taskPc' = "recv"
  /\ UNCHANGED <<queue, permits, waitq, sendPc, sendChunk, lastReturn,
                 nextChunk, txDropped, rxClosed, device, writerDropped,
                 enqueuedLog, recvCount, droppedWith>>
  /\ UNCHANGED <<openVars, sessVars, rsVars, readyVars, killVars>>

\* Faulty variant: the task ends and the channel stays open behind it.
TaskAbortKeepsReceiver ==
  /\ taskPc' = "aborted"
  /\ writerDropped' = TRUE
  /\ UNCHANGED <<queue, permits, waitq, sendPc, sendChunk, lastReturn,
                 nextChunk, txDropped, rxClosed, cur, flushed, enqueuedLog,
                 recvCount, droppedWith>>
  /\ UNCHANGED <<openVars, sessVars, rsVars, readyVars, killVars>>

\* unwrap() on an Err panics: the task unwinds, dropping the writer and the
\* Receiver; the Receiver's drop closes the channel and discards what is in it.
\* cur keeps the chunk that failed.
TaskAbort ==
  /\ taskPc' = "aborted"
  /\ writerDropped' = TRUE
  /\ rxClosed' = TRUE
  /\ queue' = <<>>
  /\ UNCHANGED <<permits, waitq, sendPc, sendChunk, lastReturn, nextChunk,
                 txDropped, cur, flushed, enqueuedLog, recvCount, droppedWith>>
  /\ UNCHANGED <<openVars, sessVars, rsVars, readyVars, killVars>>

\* writer.write_all(&bytes) fails after k bytes went out
TaskWriteFail ==
  /\ taskPc = "write"
  /\ \E k \in 0..(Len(ChunkBytes(cur)) - 1) :
       device' = device \o SubSeq(ChunkBytes(cur), 1, k)
  /\ TaskAbort

\* writer.flush() fails
TaskFlushFail ==
  /\ taskPc = "flush"
  /\ device' = device
  /\ TaskAbort

NextFwd ==
  \/ \E p \in Producers : SendBytes(p)
  \/ \E p \in Producers : SendResume(p)
  \/ DropSession
  \/ TaskRecv
  \/ TaskExit
  \/ TaskWrite
  \/ TaskFlush
  \/ TaskWriteFail
  \/ TaskFlushFail

InitFwd == SessionInit(1, 1)

SpecFwd == InitFwd /\ [][NextFwd]_vars

\* The runtime keeps scheduling the forwarding task while it can take a step.
FairSpecFwd ==
  /\ SpecFwd
  /\ WF_vars(TaskRecv)
  /\ WF_vars(TaskExit)
  /\ WF_vars(TaskWrite \/ TaskWriteFail)
  /\ WF_vars(TaskFlush \/ TaskFlushFail)

\* A session whose queue the callers have filled
InitFull == SessionAfter(1, 1, Capacity)

\* The channel and the task from a full queue on.
SpecAbort == InitFull /\ [][NextFwd]_vars

\* The runtime keeps scheduling the forwarding task while it can take a
\* step, and a caller whose send has been woken goes on awaiting it.
FairSpecAbort ==
  /\ SpecAbort
  /\ WF_vars(TaskRecv)
  /\ WF_vars(TaskExit)
  /\ WF_vars(TaskWrite \/ TaskWriteFail)
  /\ WF_vars(TaskFlush \/ TaskFlushFail)
  /\ \A p \in Producers : WF_vars(SendResume(p))

----------------------------------------------------------------------------
(* The shell process, as the operating system sees it *)

\* The shell exits by itself (or after a termination request).
ShellExits ==
  /\ childStatus = "running"
  /\ childStatus' = "exited"
  /\ UNCHANGED <<geometry, killRequests>>
  /\ UNCHANGED <<openVars, fwdVars, rsVars, readyVars, killVars>>

----------------------------------------------------------------------------
(* wait_for_shell_ready *)

\* How many snapshots the model remembers.
Window == REQUIRED_READY_CHECKS + 2

Remember(w, n) ==
  IF Len(w) < Window THEN Append(w, n) ELSE Append(Tail(w), n)

\* start.elapsed() > Duration::from_secs(5)
BudgetExceeded(t) == t > TimeoutBudget

\* Faulty variant: an exited shell is reported as still running.
TryWaitIgnoresExit(status) == {"running", "error"}

\* child.try_wait(): Ok(Some(exit_status)) for a shell that has exited,
\* Ok(None) for one that runs, or Err(e).
TryWait(status) ==
  IF status = "exited" THEN {"exited"} ELSE {"running", "error"}

\* Faulty variant: two checks are enough.
EnoughReadyChecksAtTwo(n) == n >= REQUIRED_READY_CHECKS - 1

\* consecutive_ready_checks >= REQUIRED_READY_CHECKS
EnoughReadyChecks(n) == n >= REQUIRED_READY_CHECKS

\* Faulty variant: a snapshot with children leaves the counter alone.
CountAfterKeepsOnChildren(n, nchildren) ==
  IF nchildren = 0 THEN n + 1 ELSE n

\* The counter after a snapshot that shows nchildren children of the shell.
CountAfter(n, nchildren) ==
  IF nchildren = 0 THEN n + 1 ELSE 0

\* The child mutex, free
Unlocked == [op |-> "none", who |-> 0]

\* Nobody holds the child mutex: lock() returns at once.
ChildFree == childLock = Unlocked

\* The guard taken for process_id() goes out of scope with its block.
PidGuardDropped == Unlocked

\* Faulty variant: the guard of the status check lives on after its block.
StatusGuardKept == [op |-> "wait", who |-> 0]

\* The guard taken for try_wait() goes out of scope with its block, before
\* the snapshot is awaited.
StatusGuardDropped == Unlocked

WaitReturn(r) ==
  /\ wPc' = "returned"
  /\ wResult' = r

\* let start = Instant::now(); let mut consecutive_ready_checks = 0;
WaitStart ==
  /\ wPc = "idle"
  /\ wPc' = "get_pid"
  /\ elapsed' = 0
  /\ consecutive_ready_checks' = 0
  /\ UNCHANGED <<wResult, recent, snapshots, sleeps, statusChecks,
                 exitedAtFirstCheck, sawZeroChildren>>
  /\ UNCHANGED <<openVars, sessVars, fwdVars, rsVars, killVars>>

\* child.process_id() is Some(pid)
WaitGetPid ==
  /\ wPc = "get_pid"
  /\ ChildFree
  /\ childLock' = PidGuardDropped
  /\ wPc' = "check_timeout"
  /\ UNCHANGED <<wResult, elapsed, consecutive_ready_checks, recent,
                 snapshots, sleeps, statusChecks, exitedAtFirstCheck,
                 sawZeroChildren>>
  /\ UNCHANGED <<kPc, kReturn, killsLeft>>
  /\ UNCHANGED <<openVars, sessVars, fwdVars, rsVars>>

\* child.process_id() is None
WaitGetPidFail ==
  /\ wPc = "get_pid"
  /\ ChildFree
  /\ childLock' = PidGuardDropped
  /\ WaitReturn("ErrNoPid")
  /\ UNCHANGED <<elapsed, consecutive_ready_checks, recent, snapshots,
                 sleeps, statusChecks, exitedAtFirstCheck, sawZeroChildren>>
  /\ UNCHANGED <<kPc, kReturn, killsLeft>>
  /\ UNCHANGED <<openVars, sessVars, fwdVars, rsVars>>

\* the head of the loop
WaitCheckTimeout ==
  /\ wPc = "check_timeout"
  /\ IF BudgetExceeded(elapsed)
       THEN WaitReturn("TimedOut")
       ELSE wPc' = "check_status" /\ wResult' = wResult
  /\ UNCHANGED <<elapsed, consecutive_ready_checks, recent, snapshots,
                 sleeps, statusChecks, exitedAtFirstCheck, sawZeroChildren>>
  /\ UNCHANGED <<openVars, sessVars, fwdVars, rsVars, killVars>>

\* let is_running = { match self.child.lock() { .. child.try_wait() .. } }
WaitCheckStatus ==
  /\ wPc = "check_status"
  /\ ChildFree
  /\ childLock' = StatusGuardDropped
  /\ statusChecks' = Min4(statusChecks + 1)
  /\ exitedAtFirstCheck' =
       IF statusChecks = 0 THEN childStatus = "exited" ELSE exitedAtFirstCheck
  /\ \E outcome \in TryWait(childStatus) :
       CASE outcome = "exited" -> WaitReturn("ShellExited")
         [] outcome = "error" -> WaitReturn("ErrStatus")
         [] outcome = "running" -> wPc' = "snapshot" /\ wResult' = wResult
  /\ UNCHANGED <<elapsed, consecutive_ready_checks, recent, snapshots,
                 sleeps, sawZeroChildren>>
  /\ UNCHANGED <<kPc, kReturn, killsLeft>>
  /\ UNCHANGED <<openVars, sessVars, fwdVars, rsVars>>

\* self.shell_has_no_children(shell_pid).await? comes back after delay with
\* Ok(nchildren = 0); the counter is brought up to date and compared.
WaitSnapshot ==
  /\ wPc = "snapshot"
  /\ \E nchildren \in 0..MaxChildren, delay \in 0..MaxSnapshotDelay :
       /\ elapsed' = elapsed + delay
       /\ recent' = Remember(recent, nchildren)
       /\ sawZeroChildren' = (sawZeroChildren \/ nchildren = 0)
       /\ consecutive_ready_checks' =
            CountAfter(consecutive_ready_checks, nchildren)
       /\ IF nchildren = 0
               /\ EnoughReadyChecks(
                    CountAfter(consecutive_ready_checks, nchildren))
            THEN WaitReturn("ReadyConfirmed")
            ELSE wPc' = "sleep" /\ wResult' = wResult
  /\ snapshots' = Min4(snapshots + 1)
  /\ UNCHANGED <<sleeps, statusChecks, exitedAtFirstCheck>>
  /\ UNCHANGED <<openVars, sessVars, fwdVars, rsVars, killVars>>

\* the blocking task could not be joined: Err("Task join error")
WaitSnapshotFail ==
  /\ wPc = "snapshot"
  /\ \E delay \in 0..MaxSnapshotDelay : elapsed' = elapsed + delay
  /\ WaitReturn("ErrSnapshot")
  /\ UNCHANGED <<consecutive_ready_checks, recent, snapshots, sleeps,
                 statusChecks, exitedAtFirstCheck, sawZeroChildren>>
  /\ UNCHANGED <<openVars, sessVars, fwdVars, rsVars, killVars>>

\* sleep(Duration::from_millis(300)).await
WaitSleep ==
  /\ wPc = "sleep"
  /\ elapsed' = elapsed + PollInterval
  /\ sleeps' = Min4(sleeps + 1)
  /\ wPc' = "check_timeout"
  /\ UNCHANGED <<wResult, consecutive_ready_checks, recent, snapshots,
                 statusChecks, exitedAtFirstCheck, sawZeroChildren>>
  /\ UNCHANGED <<openVars, sessVars, fwdVars, rsVars, killVars>>

NextReady ==
  \/ ShellExits
  \/ WaitStart
  \/ WaitGetPid
  \/ WaitGetPidFail
  \/ WaitCheckTimeout
  \/ WaitCheckStatus
  \/ WaitSnapshot
  \/ WaitSnapshotFail
  \/ WaitSleep

InitReady == SessionInit(1, 1)

SpecReady == InitReady /\ [][NextReady]_vars

----------------------------------------------------------------------------
(* resize *)

\* Faulty variant: rows and cols change places.
ResizeSizeSwapped(rows, cols) == PtySizeOf(cols, rows)

\* PtySize { rows, cols, pixel_width: 0, pixel_height: 0 }, as resize
\* builds it
ResizeSize(rows, cols) == PtySizeOf(rows, cols)

\* What the caller of resize gets back
ResizeReturned(r, size, res) == [who |-> r, size |-> size, result |-> res]

\* A caller calls resize(rows, cols).
ResizeCall(r) ==
  /\ rsPc[r] = "idle"
  /\ \E rows \in RowChoices, cols \in ColChoices :
       rsArg' = [rsArg EXCEPT ![r] = <<rows, cols>>]
  /\ rsPc' = [rsPc EXCEPT ![r] = "called"]
  /\ lastCalled' = r
  /\ UNCHANGED <<masterLock, rsReturn, lastLocked>>
  /\ UNCHANGED <<openVars, sessVars, fwdVars, readyVars, killVars>>

\* Faulty variant: the lock is handed out while it is held.
MasterFreeAlways == masterLock = 0 \/ masterLock # 0

\* Nobody holds the master mutex: lock() returns at once.
MasterFree == masterLock = 0

\* self.master.lock() is Ok(master)
ResizeLock(r) ==
  /\ rsPc[r] = "called"
  /\ MasterFree
  /\ masterLock' = r
  /\ rsPc' = [rsPc EXCEPT ![r] = "locked"]
  /\ lastLocked' = [who |-> r, size |-> rsArg[r]]
  /\ UNCHANGED <<rsArg, rsReturn, lastCalled>>
  /\ UNCHANGED <<openVars, sessVars, fwdVars, readyVars, killVars>>

\* The call is over: the guard is dropped, the caller has its result.
ResizeLeave(r, res) ==
  /\ masterLock' = 0
  /\ rsPc' = [rsPc EXCEPT ![r] = "idle"]
  /\ rsArg' = [rsArg EXCEPT ![r] = <<>>]
  /\ rsReturn' = ResizeReturned(r, rsArg[r], res)
  /\ UNCHANGED <<lastCalled, lastLocked>>

\* master.resize(PtySize { .. }) is Ok(()): Ok(())
ResizeApply(r) ==
  /\ rsPc[r] = "locked"
  /\ geometry' = ResizeSize(rsArg[r][1], rsArg[r][2])
  /\ ResizeLeave(r, "Ok")
  /\ UNCHANGED <<childStatus, killRequests>>
  /\ UNCHANGED <<openVars, fwdVars, readyVars, killVars>>

\* master.resize(..) is Err(e): Err("Failed to resize terminal")
ResizeApplyFail(r) ==
  /\ rsPc[r] = "locked"
  /\ ResizeLeave(r, "ResizeFailure")
  /\ UNCHANGED <<openVars, sessVars, fwdVars, readyVars, killVars>>

NextResize ==
  \/ \E r \in Resizers : ResizeCall(r)
  \/ \E r \in Resizers : ResizeLock(r)
  \/ \E r \in Resizers : ResizeApply(r)
  \/ \E r \in Resizers : ResizeApplyFail(r)

InitResize ==
  \E rows \in RowChoices, cols \in ColChoices : SessionInit(rows, cols)

SpecResize == InitResize /\ [][NextResize]_vars

----------------------------------------------------------------------------
(* kill_child *)

\* What the caller of kill_child gets back
KillReturned(k, res) == [who |-> k, result |-> res]

\* A caller calls kill_child().
KillCall(k) ==
  /\ kPc[k] = "idle"
  /\ ~txDropped
  /\ killsLeft > 0
  /\ killsLeft' = killsLeft - 1
  /\ kPc' = [kPc EXCEPT ![k] = "called"]
  /\ UNCHANGED <<childLock, kReturn>>
  /\ UNCHANGED <<openVars, sessVars, fwdVars, rsVars, readyVars>>

\* self.child.lock() is Ok(child)
KillLock(k) ==
  /\ kPc[k] = "called"
  /\ ChildFree
  /\ childLock' = [op |-> "kill", who |-> k]
  /\ kPc' = [kPc EXCEPT ![k] = "locked"]
  /\ UNCHANGED <<kReturn, killsLeft>>
  /\ UNCHANGED <<openVars, sessVars, fwdVars, rsVars, readyVars>>

\* The call is over: the guard is dropped, the caller has its result.
KillLeave(k, res) ==
  /\ childLock' = Unlocked
  /\ kPc' = [kPc EXCEPT ![k] = "idle"]
  /\ kReturn' = KillReturned(k, res)
  /\ UNCHANGED killsLeft

\* Faulty variant: the call comes back only when the shell has exited.
KillApplyAwaitsExit(k) ==
  /\ kPc[k] = "locked"
  /\ killRequests' = killRequests + 1
  /\ KillLeave(k, "Ok")
  /\ childStatus' = "exited"
  /\ UNCHANGED geometry
  /\ UNCHANGED <<openVars, fwdVars, rsVars, readyVars>>

\* child.kill() is Ok(()): the request is out, nobody waits for the exit.
KillApply(k) ==
  /\ kPc[k] = "locked"
  /\ killRequests' = killRequests + 1
  /\ KillLeave(k, "Ok")
  /\ UNCHANGED <<geometry, childStatus>>
  /\ UNCHANGED <<openVars, fwdVars, rsVars, readyVars>>

\* child.kill() is Err(e): Err("Failed to kill child")
KillApplyFail(k) ==
  /\ kPc[k] = "locked"
  /\ KillLeave(k, "KillFailure")
  /\ UNCHANGED <<openVars, sessVars, fwdVars, rsVars, readyVars>>

----------------------------------------------------------------------------
(* The two ways a Session's resources are released *)

\* The Session takes a few chunks, kill_child is called and the Session is
\* dropped, in any order the borrow of the Session allows.
NextRelease ==
  \/ \E p \in Producers : nextChunk <= MaxReleaseChunks /\ SendBytes(p)
  \/ DropSession
  \/ TaskRecv
  \/ TaskExit
  \/ TaskWrite
  \/ TaskFlush
  \/ TaskWriteFail
  \/ TaskFlushFail
  \/ ShellExits
  \/ \E k \in Killers : KillCall(k)
  \/ \E k \in Killers : KillLock(k)
  \/ \E k \in Killers : KillApply(k)
  \/ \E k \in Killers : KillApplyFail(k)

InitRelease == SessionInit(1, 1)

SpecRelease == InitRelease /\ [][NextRelease]_vars

\* The runtime keeps scheduling the forwarding task while it can take a step.
FairSpecRelease ==
  /\ SpecRelease
  /\ WF_vars(TaskRecv)
  /\ WF_vars(TaskExit)
  /\ WF_vars(TaskWrite \/ TaskWriteFail)
  /\ WF_vars(TaskFlush \/ TaskFlushFail)

\* C14: the two release paths do not touch each other.  A kill_child step
\* changes nothing of the queue, its contents and the forwarding task, and
\* does not wait for the shell's exit; it issues one termination request,
\* when child.kill() is Ok.  send_bytes enqueues as before whatever the
\* number of requests issued.  A step of the queue or the task, the drop of
\* the producer included, issues no termination request.  The task ends
\* normally only after the producer was dropped, and once the producer is
\* dropped the task ends and the writer is dropped.
C14_ReleasePathsIndependent ==
  /\ [](taskPc = "done" => txDropped /\ writerDropped)
  /\ [][/\ kPc' # kPc =>
            /\ UNCHANGED fwdVars
            /\ childStatus' = childStatus
        /\ killRequests' # killRequests =>
            /\ killRequests' = killRequests + 1
            /\ \E k \in Killers : kPc[k] = "locked" /\ kPc'[k] = "idle"
            /\ kReturn'.result = "Ok"
        /\ fwdVars' # fwdVars =>
            /\ killRequests' = killRequests
            /\ UNCHANGED killVars
            /\ childStatus' = childStatus
        /\ (nextChunk' # nextChunk /\ ~rxClosed) =>
            /\ queue' = Enqueue(queue, nextChunk)
            /\ lastReturn'.result = "Ok"]_vars
  /\ (txDropped ~> (taskPc \in {"done", "aborted"} /\ writerDropped))

\* kill_child returned Ok and the shell still runs; every chunk submitted was
\* written; the producer was dropped and the task ended; one termination
\* request was issued in all.
C14_Witness ==
  /\ kReturn.result = "Ok"
  /\ killRequests = 1
  /\ killsLeft = 0
  /\ childStatus = "running"
  /\ txDropped
  /\ taskPc = "done"
  /\ writerDropped
  /\ Len(enqueuedLog) = MaxReleaseChunks
  /\ device = BytesOf(enqueuedLog)

----------------------------------------------------------------------------
(* The operations that take a lock or suspend, side by side *)

\* One step of wait_for_shell_ready
WaitStep ==
  \/ WaitStart
  \/ WaitGetPid
  \/ WaitGetPidFail
  \/ WaitCheckTimeout
  \/ WaitCheckStatus
  \/ WaitSnapshot
  \/ WaitSnapshotFail
  \/ WaitSleep

\* wait_for_shell_ready is suspended
WaitSuspended == wPc \in {"snapshot", "sleep"}

\* wait_for_shell_ready is followed through its first polling ticks, next to
\* kill_child callers, one send_bytes call that finds the queue full and one
\* resize call made while wait_for_shell_ready is suspended.
NextLocks ==
  \/ ShellExits
  \/ elapsed <= MaxLockTicks /\ WaitStep
  \/ \E p \in Producers : waitq = <<>> /\ SendBytes(p)
  \/ \E k \in Killers : KillCall(k)
  \/ \E k \in Killers : KillLock(k)
  \/ \E k \in Killers : KillApply(k)
  \/ \E k \in Killers : KillApplyFail(k)
  \/ \E r \in Resizers : lastCalled = 0 /\ WaitSuspended /\ ResizeCall(r)
  \/ \E r \in Resizers : ResizeLock(r)
  \/ \E r \in Resizers : ResizeApply(r)
  \/ \E r \in Resizers : ResizeApplyFail(r)

InitLocks == InitFull

SpecLocks == InitLocks /\ [][NextLocks]_vars

\* Some send_bytes call is suspended on the full queue.
SendSuspended == \E p \in Producers : sendPc[p] = "waiting"

\* The child mutex is free, or held by a kill_child call that is inside its
\* one synchronous call and gives it back with its next step.
ChildLockAcquirable ==
  \/ ChildFree
  \/ childLock.op = "kill" /\ kPc[childLock.who] = "locked"

\* The same for the master mutex and resize.
MasterLockAcquirable ==
  \/ MasterFree
  \/ masterLock \in Resizers /\ rsPc[masterLock] = "locked"

C10_ResizeSetsGeometry ==
  /\ rsReturn.result = "Ok" =>
       /\ geometry.rows = rsReturn.size[1]
       /\ geometry.cols = rsReturn.size[2]
       /\ geometry.pixel_width = 0
       /\ geometry.pixel_height = 0
  /\ rsReturn.result \in {"none", "Ok", "ResizeFailure", "HandleLockFailure"}

\* C10 witness: resize(24, 80) has returned Ok on a device opened with
\* another size, while another caller's resize waits for the lock.
C10_Witness ==
  /\ rsReturn.result = "Ok"
  /\ rsReturn.size = <<24, 80>>
  /\ openArgs.rows = 1
  /\ geometry.rows = 24
  /\ geometry.cols = 80
  /\ \E r \in Resizers : rsPc[r] = "called" /\ rsArg[r] = <<1, 1>>

\* Callers inside resize, between taking the lock and returning
Applying == {r \in Resizers : rsPc[r] = "locked"}

\* C11: resize calls are serialized by the master lock: at most one caller is
\* between lock and return, and it is the lock's holder; once no call is in
\* progress, and the call that took the lock last returned Ok, the geometry
\* is that call's rows and cols (both from that one call), whichever call
\* was made last.
C11_ResizeSerialized ==
  /\ Cardinality(Applying) <= 1
  /\ \A r \in Resizers : rsPc[r] = "locked" <=> masterLock = r
  /\ ((\A r \in Resizers : rsPc[r] = "idle")
        /\ lastLocked.who # 0 /\ rsReturn.result = "Ok") =>
       /\ rsReturn.who = lastLocked.who
       /\ geometry = PtySizeOf(lastLocked.size[1], lastLocked.size[2])

\* C11 witness: two calls with different rows and cols overlapped, the one
\* made first took the lock last, and its size is the final one.
C11_Witness ==
  /\ \A r \in Resizers : rsPc[r] = "idle"
  /\ rsReturn.result = "Ok"
  /\ lastLocked.who # 0
  /\ lastLocked.who # lastCalled
  /\ lastLocked.size = <<24, 80>>
  /\ geometry = PtySizeOf(24, 80)
  /\ openArgs.rows = 1
  /\ openArgs.cols = 1

----------------------------------------------------------------------------
(* Properties of the channel and the forwarding task *)

Granted == {p \in Producers : sendPc[p] = "granted"}

\* Every slot of the channel is taken (by a chunk, or reserved for a producer
\* that is about to resume).
NoFreeSlot == Len(queue) + Cardinality(Granted) = Capacity

\* Chunks the task has taken from the channel and not yet written.
InHand == IF taskPc = "write" THEN <<cur>> ELSE <<>>

\* C1: the bytes written to the device writer are, in order, the bytes of the
\* chunks in the order they entered the channel: always a prefix of them (no
\* reordering, no duplication), exactly them less what is still held in the
\* channel or by the task while the task runs (no loss), and each chunk is
\* flushed before the next one is received.
C1_ForwardedInOrder ==
  /\ IsPrefix(device, BytesOf(enqueuedLog))
  /\ taskPc # "aborted" =>
       BytesOf(enqueuedLog) = device \o BytesOf(InHand \o queue)
  /\ taskPc \in {"recv", "write", "done"} => flushed = Len(device)
  /\ taskPc = "flush" => flushed + Len(ChunkBytes(cur)) = Len(device)

\* C1 witness: producers overtook each other on a full channel (the order of
\* entry differs from the order of the calls) and everything has been written.
C1_Witness ==
  /\ taskPc = "recv"
  /\ \E i \in 1..(Len(enqueuedLog) - 1) : enqueuedLog[i] > enqueuedLog[i + 1]
  /\ device = BytesOf(enqueuedLog)
  /\ Len(enqueuedLog) > Capacity

\* C2: once the Session is dropped the task ends and the writer is dropped,
\* with no termination request to the child; a task that ends by itself has
\* written and flushed every chunk that entered the channel, and only a task
\* that is over has dropped the writer.
C2_DropDrainsThenEndsInput ==
  /\ txDropped ~> (writerDropped /\ taskPc \in {"done", "aborted"})
  /\ [](writerDropped => taskPc \in {"done", "aborted"})
  /\ [](taskPc = "done" =>
          /\ writerDropped
          /\ queue = <<>>
          /\ device = BytesOf(enqueuedLog)
          /\ flushed = Len(device)
          /\ killRequests = 0)

\* C2 witness: the Session was dropped with chunks still unwritten, and the
\* task has written them all and ended, the child untouched.
C2_Witness ==
  /\ droppedWith = 2
  /\ taskPc = "done"
  /\ writerDropped
  /\ device = BytesOf(enqueuedLog)
  /\ killRequests = 0
  /\ childStatus = "running"

\* C8: a send_bytes call on an open channel with a free slot puts its chunk
\* at the tail and returns Ok; with no free slot it suspends, leaving the
\* channel as it is, and is handed a slot only when the task takes a chunk
\* out; it returns Err, leaving the contents as they are, exactly when the
\* channel is closed.
C8_SendBytesOutcome ==
  [][\A p \in Producers :
       /\ (sendPc[p] = "idle" /\ lastReturn' # lastReturn
              /\ lastReturn'.who = p) =>
            IF rxClosed
              THEN lastReturn'.result = "Err" /\ queue' = queue
              ELSE /\ ~NoFreeSlot
                   /\ lastReturn'.result = "Ok"
                   /\ queue' = Append(queue, lastReturn'.chunk)
       /\ (sendPc[p] = "idle" /\ sendPc'[p] # "idle") =>
            /\ ~rxClosed
            /\ NoFreeSlot
            /\ sendPc'[p] = "waiting"
            /\ queue' = queue
       /\ (sendPc[p] = "waiting" /\ sendPc'[p] = "granted") =>
            Len(queue') = Len(queue) - 1
       /\ (sendPc[p] # "idle" /\ sendPc'[p] = "idle") =>
            /\ lastReturn'.who = p
            /\ IF rxClosed
                 THEN lastReturn'.result = "Err" /\ queue' = queue
                 ELSE /\ sendPc[p] = "granted"
                      /\ lastReturn'.result = "Ok"
                      /\ queue' = Append(queue, sendChunk[p])
  ]_vars

\* C8 witness: the channel is closed, one call has returned Err and another
\* caller, suspended when the channel was full, has not been resumed yet.
C8_Witness ==
  /\ rxClosed
  /\ lastReturn.result = "Err"
  /\ \E p \in Producers : sendPc[p] = "waiting"

\* C9: the channel never holds more than 32 chunks, and a chunk that has
\* entered the channel and is not yet written is in the channel or is the one
\* chunk the task holds.
C9_QueueBounded ==
  /\ Len(queue) <= Capacity
  /\ Len(queue) + Cardinality(Granted) <= Capacity
  /\ taskPc # "aborted" =>
       Len(enqueuedLog) = recvCount + Len(queue)
  /\ taskPc \in {"write", "flush"} <=> cur # 0 /\ taskPc # "aborted"
  /\ cur # 0 /\ taskPc # "aborted" =>
       /\ cur = enqueuedLog[recvCount]
       /\ \A i \in 1..Len(queue) : queue[i] # cur

\* C9 witness: the channel is full, the task holds one more chunk and every
\* producer is suspended.
C9_Witness ==
  /\ Len(queue) = Capacity
  /\ taskPc = "write"
  /\ \A p \in Producers : sendPc[p] = "waiting"

----------------------------------------------------------------------------
(* Properties of wait_for_shell_ready *)

Polling == wPc \in {"check_timeout", "check_status", "snapshot", "sleep"}

\* The number of snapshots without children at the end of w.
RECURSIVE TrailingZeros(_)
TrailingZeros(w) ==
  IF w = <<>> \/ w[Len(w)] # 0
    THEN 0
    ELSE 1 + TrailingZeros(SubSeq(w, 1, Len(w) - 1))

\* C3: readiness is confirmed only when the last 3 snapshots in a row showed
\* no children, and on the 3rd of them (the detector is never still polling
\* after 3 such snapshots); while polling, the counter is the number of
\* snapshots without children in a row, so a snapshot with a child sets it
\* to 0.
C3_DebouncedReadiness ==
  /\ wResult = "ReadyConfirmed" => TrailingZeros(recent) = 3
  /\ Polling => TrailingZeros(recent) < 3
  /\ Polling => consecutive_ready_checks = TrailingZeros(recent)
  /\ Polling /\ recent # <<>> /\ recent[Len(recent)] # 0 =>
       consecutive_ready_checks = 0

\* C3 witness: no children for one tick, then a child, then no children for
\* three ticks, and only then readiness confirmed.
C3_Witness ==
  /\ wResult = "ReadyConfirmed"
  /\ recent = <<0, 1, 0, 0, 0>>

\* C4 (as claimed): a call that saw a child at every snapshot and met no
\* failure returns TimedOut no later than 5 s plus one poll interval after
\* it began.
C4_SoftTimeoutWithinBound ==
  (/\ wPc = "returned"
   /\ ~sawZeroChildren
   /\ wResult \notin {"ShellExited", "ErrStatus", "ErrSnapshot", "ErrNoPid"})
  => /\ wResult = "TimedOut"
     /\ elapsed <= TimeoutBudget + PollInterval

\* C5: a shell found exited by the first status check makes the call return
\* ShellExited at once: no snapshot taken, no sleep, no time spent.
C5_ExitedShellFailsAtOnce ==
  exitedAtFirstCheck =>
    /\ wPc = "returned"
    /\ wResult = "ShellExited"
    /\ statusChecks = 1
    /\ snapshots = 0
    /\ sleeps = 0
    /\ elapsed = 0

\* C5 witness: the shell had exited before the first status check.
C5_Witness ==
  /\ exitedAtFirstCheck
  /\ childStatus = "exited"
  /\ wResult = "ShellExited"

\* C6 (as claimed): a call is never still polling, and never returns, later
\* than 5 s plus one poll interval after it began.
C6_OverWithinBudget ==
  wPc # "idle" => elapsed <= TimeoutBudget + PollInterval

\* C16 (as claimed): a tick that begins with the shell exited ends the call
\* with ShellExited and with nothing else, whatever the time elapsed.
C16_ExitedShellFailsOnEveryTick ==
  [][(wPc = "check_timeout" /\ childStatus = "exited" /\ wPc' = "returned")
       => wResult' = "ShellExited"]_vars

\* C17 (as claimed): once a write or flush has failed the task stays stopped
\* and nothing more reaches the device, and no send_bytes call ever returns
\* an error because of it.
C17_AbortStopsSilently ==
  /\ [][taskPc = "aborted" =>
          /\ taskPc' = "aborted"
          /\ device' = device
          /\ flushed' = flushed]_vars
  /\ [](taskPc = "aborted" => lastReturn.result # "Err")

\* C17 (amended): once a write or flush has failed the task stays stopped:
\* the chunk that failed is not taken up again, nothing more is written or
\* flushed and nothing is received from the queue.  The writer is dropped
\* and the channel is closed and empty, and every send_bytes call that
\* returns from then on returns an error.
C17_AbortStopsAndSendsFail ==
  /\ [][taskPc = "aborted" =>
          /\ taskPc' = "aborted"
          /\ cur' = cur
          /\ device' = device
          /\ flushed' = flushed
          /\ recvCount' = recvCount
          /\ (lastReturn' # lastReturn => lastReturn'.result = "Err")]_vars
  /\ [](taskPc = "aborted" =>
          /\ cur # 0
          /\ writerDropped
          /\ rxClosed
          /\ queue = <<>>)

\* The second chunk failed after the first was written and flushed; a chunk
\* submitted later came back with an error.
C17_Witness ==
  /\ taskPc = "aborted"
  /\ cur = 2
  /\ flushed = Len(ChunkBytes(1))
  /\ lastReturn.result = "Err"
  /\ lastReturn.chunk > cur
  /\ ~txDropped

\* C19: while the call is polling the counter is 0, 1 or 2.  It changes only
\* in the step that takes a snapshot: by +1 when the snapshot shows no
\* child, to 0 when it shows one; the budget test, the status check and the
\* sleep leave it alone.  So ReadyConfirmed is returned only after three
\* snapshots and two sleeps, no earlier than two poll intervals after the
\* call began.
C19_CounterAndEarliestReady ==
  /\ [](Polling => consecutive_ready_checks \in 0..(REQUIRED_READY_CHECKS - 1))
  /\ [][/\ (wPc # "snapshot" \/ wPc' = "snapshot"
              \/ wResult' = "ErrSnapshot") =>
            consecutive_ready_checks' = consecutive_ready_checks
        /\ (wPc = "snapshot" /\ wPc' # "snapshot"
              /\ wResult' # "ErrSnapshot") =>
            consecutive_ready_checks' =
              IF recent'[Len(recent')] = 0
                THEN consecutive_ready_checks + 1
                ELSE 0]_vars
  /\ [](wResult = "ReadyConfirmed" =>
          /\ consecutive_ready_checks = REQUIRED_READY_CHECKS
          /\ snapshots >= REQUIRED_READY_CHECKS
          /\ sleeps >= REQUIRED_READY_CHECKS - 1
          /\ elapsed >= (REQUIRED_READY_CHECKS - 1) * PollInterval)

\* A shell with no child from the start: ReadyConfirmed with the third
\* snapshot, two poll intervals after the call began.
C19_Witness ==
  /\ wResult = "ReadyConfirmed"
  /\ snapshots = REQUIRED_READY_CHECKS
  /\ sleeps = REQUIRED_READY_CHECKS - 1
  /\ elapsed = (REQUIRED_READY_CHECKS - 1) * PollInterval
  /\ recent = <<0, 0, 0>>

\* The chunks that entered the queue and were not received by the task
Unreceived == {enqueuedLog[i] : i \in (recvCount + 1)..Len(enqueuedLog)}

\* The chunks some byte of which is on the device
Written == {device[i][1] : i \in 1..Len(device)}

\* C20: after the task has aborted no send_bytes call stays suspended: each
\* call that was suspended on the full queue returns, and it returns an
\* error without its chunk entering the queue, as does every call made
\* later.  What was in the queue at the abort is discarded: no byte of a
\* chunk the task had not received is ever on the device.
C20_AbortReleasesProducers ==
  /\ (taskPc = "aborted") ~> (\A p \in Producers : sendPc[p] = "idle")
  /\ [][taskPc = "aborted" =>
          /\ enqueuedLog' = enqueuedLog
          /\ queue' = queue
          /\ device' = device
          /\ \A p \in Producers :
               (sendPc[p] # "idle" /\ sendPc'[p] = "idle") =>
                 lastReturn' = Returned(p, sendChunk[p], "Err")
          /\ nextChunk' # nextChunk =>
               /\ lastReturn'.chunk = nextChunk
               /\ lastReturn'.result = "Err"
               /\ sendPc' = sendPc]_vars
  /\ [](taskPc = "aborted" => queue = <<>> /\ Unreceived \cap Written = {})

\* The task aborted on its first chunk with the queue full again and a call
\* suspended; every call has returned, the last one with an error.
C20_Witness ==
  /\ taskPc = "aborted"
  /\ cur = 1
  /\ Len(enqueuedLog) = Capacity + 1
  /\ nextChunk > Capacity + 2
  /\ device = <<>>
  /\ \A p \in Producers : sendPc[p] = "idle"
  /\ lastReturn.result = "Err"
  /\ lastReturn.chunk = Capacity + 2

====
